---------------------------- MODULE Spec2Model ----------------------------
(***************************************************************************)
(* A model of moira: the key / note / scale pitch model (key.rs, scale.rs) *)
(* and the MIDI timeline compiler (track.rs, chord.rs).                    *)
(*                                                                         *)
(* Every function of the program is pure, so a behaviour is one call:      *)
(* from the idle state an action draws the arguments of one function from  *)
(* a bounded set, applies the function as the code computes it and records *)
(* the call in `call` and what it returned in `ret`.  A panic (a failed    *)
(* unwrap, an arithmetic overflow in a build with overflow checks, a       *)
(* division by zero, an index out of range) is the result Panic.           *)
(* `overflow_checks` is the build: TRUE is a debug build, where integer    *)
(* overflow panics, FALSE a release build, where it wraps; the operators   *)
(* take it as their first parameter oc.  The 8-bit                         *)
(* integers keep their width; the u32 tick counts of the compiler stay far *)
(* below 2^32 for every input drawn here and are plain integers.           *)
(***************************************************************************)
EXTENDS Integers, Sequences, FiniteSets

VARIABLES overflow_checks, call, ret

vars == <<overflow_checks, call, ret>>

---------------------------------------------------------------------------
(* Results: Result / Option / panic *)

Ok(v) == [tag |-> "ok", val |-> v]

Err(e) == [tag |-> "err", err |-> e]

Panic == [tag |-> "panic"]

Some(v) == [tag |-> "some", val |-> v]

None == [tag |-> "none"]

IsOk(r) == r.tag = "ok"

---------------------------------------------------------------------------
(* Machine integers *)

I8_MIN == -128

I8_MAX == 127

U8_MAX == 255

I8 == I8_MIN .. I8_MAX

U8 == 0 .. U8_MAX

\* two's complement wrap of an integer to 8 signed bits
WrapI8(x) == ((x + 128) % 256) - 128

\* wrap of an integer to 8 unsigned bits
WrapU8(x) == x % 256

\* the result of an i8 operation whose exact value is x
ArithI8(oc, x) ==
    IF x \in I8 THEN Ok(x)
    ELSE IF oc THEN Panic ELSE Ok(WrapI8(x))

\* the result of a u8 operation whose exact value is x
ArithU8(oc, x) ==
    IF x \in U8 THEN Ok(x)
    ELSE IF oc THEN Panic ELSE Ok(WrapU8(x))

\* i8::try_from(x).unwrap(), x.try_into().unwrap() to i8
TryIntoI8(x) == IF x \in I8 THEN Ok(x) ELSE Panic

\* u8::try_from(x).unwrap(), x.try_into().unwrap() to u8
TryIntoU8(x) == IF x \in U8 THEN Ok(x) ELSE Panic

Abs(x) == IF x < 0 THEN -x ELSE x

\* Rust's `/` on integers: the quotient truncated towards zero (b # 0)
TruncDiv(a, b) ==
    LET q == Abs(a) \div Abs(b)
    IN  IF (a < 0) = (b < 0) THEN q ELSE -q

\* Rust's `%` on integers: the remainder with the sign of the dividend (b # 0)
TruncRem(a, b) == a - b * TruncDiv(a, b)

\* i8::rem_euclid (core): r = self % rhs; if r < 0 { r + |rhs| } else { r }
rem_euclid(a, b) ==
    LET r == TruncRem(a, b)
    IN  IF r < 0 THEN r + Abs(b) ELSE r

\* i8::div_euclid (core): q = self / rhs; if self % rhs < 0 { q -/+ 1 } else { q }
div_euclid(a, b) ==
    LET q == TruncDiv(a, b)
    IN  IF TruncRem(a, b) < 0 THEN (IF b > 0 THEN q - 1 ELSE q + 1) ELSE q

---------------------------------------------------------------------------
(* key.rs: Key *)

BaseKeys == <<"C", "D", "E", "F", "G", "A", "B">>

BaseKey == {BaseKeys[i] : i \in 1 .. 7}

KeyModifier == {"Natural", "Flat", "Sharp", "DoubleSharp"}

NamedKey_new(base_key, key_modifier) ==
    [base_key |-> base_key, key_modifier |-> key_modifier]

NamedKey == {NamedKey_new(b, m) : b \in BaseKey, m \in KeyModifier}

\* a mutant of Key_new: the remainder of `%`, which keeps the sign of the input
Key_new_trunc(key) == TruncRem(key, 12)

\* Key::new
Key_new(key) == rem_euclid(key, 12)

\* Key::get_named_key_starting_with: the table, row by row
get_named_key_starting_with(key, base_key) ==
    CASE key = 0 /\ base_key = "B" -> Some(NamedKey_new("B", "Sharp"))
      [] key = 0 /\ base_key = "C" -> Some(NamedKey_new("C", "Natural"))
      [] key = 1 /\ base_key = "C" -> Some(NamedKey_new("C", "Sharp"))
      [] key = 1 /\ base_key = "D" -> Some(NamedKey_new("D", "Flat"))
      [] key = 2 /\ base_key = "C" -> Some(NamedKey_new("D", "DoubleSharp"))
      [] key = 2 /\ base_key = "D" -> Some(NamedKey_new("D", "Natural"))
      [] key = 3 /\ base_key = "D" -> Some(NamedKey_new("D", "Sharp"))
      [] key = 3 /\ base_key = "E" -> Some(NamedKey_new("E", "Flat"))
      [] key = 4 /\ base_key = "E" -> Some(NamedKey_new("E", "Natural"))
      [] key = 4 /\ base_key = "F" -> Some(NamedKey_new("F", "Flat"))
      [] key = 5 /\ base_key = "E" -> Some(NamedKey_new("E", "Sharp"))
      [] key = 5 /\ base_key = "F" -> Some(NamedKey_new("F", "Natural"))
      [] key = 6 /\ base_key = "F" -> Some(NamedKey_new("F", "Sharp"))
      [] key = 6 /\ base_key = "G" -> Some(NamedKey_new("G", "Flat"))
      [] key = 7 /\ base_key = "F" -> Some(NamedKey_new("G", "DoubleSharp"))
      [] key = 7 /\ base_key = "G" -> Some(NamedKey_new("G", "Natural"))
      [] key = 8 /\ base_key = "G" -> Some(NamedKey_new("G", "Sharp"))
      [] key = 8 /\ base_key = "A" -> Some(NamedKey_new("A", "Flat"))
      [] key = 9 /\ base_key = "G" -> Some(NamedKey_new("A", "DoubleSharp"))
      [] key = 9 /\ base_key = "A" -> Some(NamedKey_new("A", "Natural"))
      [] key = 10 /\ base_key = "A" -> Some(NamedKey_new("A", "Sharp"))
      [] key = 10 /\ base_key = "B" -> Some(NamedKey_new("B", "Flat"))
      [] key = 11 /\ base_key = "B" -> Some(NamedKey_new("B", "Natural"))
      [] key = 11 /\ base_key = "C" -> Some(NamedKey_new("C", "Flat"))
      [] OTHER -> None

\* Key::get_default_named_key
get_default_named_key(key) ==
    CASE key = 0 -> Ok(NamedKey_new("C", "Natural"))
      [] key = 1 -> Ok(NamedKey_new("C", "Sharp"))
      [] key = 2 -> Ok(NamedKey_new("D", "Natural"))
      [] key = 3 -> Ok(NamedKey_new("D", "Sharp"))
      [] key = 4 -> Ok(NamedKey_new("E", "Natural"))
      [] key = 5 -> Ok(NamedKey_new("F", "Natural"))
      [] key = 6 -> Ok(NamedKey_new("F", "Sharp"))
      [] key = 7 -> Ok(NamedKey_new("G", "Natural"))
      [] key = 8 -> Ok(NamedKey_new("G", "Sharp"))
      [] key = 9 -> Ok(NamedKey_new("A", "Natural"))
      [] key = 10 -> Ok(NamedKey_new("A", "Sharp"))
      [] key = 11 -> Ok(NamedKey_new("B", "Natural"))
      [] OTHER -> Panic

\* impl Add<&i8> for Key: Key::new(self.0 + *rhs)
Key_add(oc, key, rhs) ==
    LET s == ArithI8(oc, key + rhs)
    IN  IF IsOk(s) THEN Ok(Key_new(s.val)) ELSE Panic

\* KeyModifier::get_value
get_value(key_modifier) ==
    CASE key_modifier = "Flat" -> -1
      [] key_modifier = "Natural" -> 0
      [] key_modifier = "Sharp" -> 1
      [] key_modifier = "DoubleSharp" -> 2

\* BaseKey::to_key
BaseKey_to_key(base_key) ==
    Key_new(CASE base_key = "C" -> 0
              [] base_key = "D" -> 2
              [] base_key = "E" -> 4
              [] base_key = "F" -> 5
              [] base_key = "G" -> 7
              [] base_key = "A" -> 9
              [] base_key = "B" -> 11)

\* BaseKey::get_keys_in_order: the 7 letters, cycled, from this one
get_keys_in_order(base_key) ==
    LET start_idx == CHOOSE i \in 0 .. 6 : BaseKeys[i + 1] = base_key
    IN  [i \in 1 .. 7 |-> BaseKeys[((start_idx + i - 1) % 7) + 1]]

\* NamedKey::to_key: self.base_key.to_key() + &self.key_modifier.get_value()
NamedKey_to_key(oc, named_key) ==
    Key_add(oc, BaseKey_to_key(named_key.base_key), get_value(named_key.key_modifier)).val

---------------------------------------------------------------------------
(* key.rs: Note, NamedNote *)

\* impl Add<&i8> for Note:
\*   let key: i8 = self.0.try_into().unwrap(); Self((key + *rhs).try_into().unwrap())
Note_add(oc, note, rhs) ==
    LET key == TryIntoI8(note)
    IN  IF ~IsOk(key) THEN Panic
        ELSE LET s == ArithI8(oc, key.val + rhs)
             IN  IF ~IsOk(s) THEN Panic ELSE TryIntoU8(s.val)

\* Note::decompose: key and octave are u8
\*   let key = self.0 % 12; let octave = (self.0 - key) / 12 - 1;
\*   (Key::new(key.try_into().unwrap()), octave.try_into().unwrap())
Note_decompose(oc, note) ==
    LET key    == TruncRem(note, 12)
        octave == ArithU8(oc, TruncDiv(note - key, 12) - 1)
    IN  IF ~IsOk(octave) THEN Panic
        ELSE LET k == TryIntoI8(key)
                 o == TryIntoI8(octave.val)
             IN  IF IsOk(k) /\ IsOk(o)
                 THEN Ok([key |-> Key_new(k.val), octave |-> o.val])
                 ELSE Panic

\* Note::compose: Self(key.0.try_into().unwrap()) + &((octave + 1) * 12)
Note_compose(oc, key, octave) ==
    LET n  == TryIntoU8(key)
        o1 == ArithI8(oc, octave + 1)
    IN  IF ~IsOk(n) \/ ~IsOk(o1) THEN Panic
        ELSE LET rhs == ArithI8(oc, o1.val * 12)
             IN  IF ~IsOk(rhs) THEN Panic ELSE Note_add(oc, n.val, rhs.val)

NamedNote_new(key, octave) == [key |-> key, octave |-> octave]

\* Note::get_named_note_starting_with
get_named_note_starting_with(oc, note, base_key) ==
    LET d == Note_decompose(oc, note)
    IN  IF ~IsOk(d) THEN Panic
        ELSE LET named_key == get_named_key_starting_with(d.val.key, base_key)
                 octave    == d.val.octave
             IN  IF named_key = None THEN Ok(None)
                 ELSE LET nk == named_key.val
                          o  == IF nk.base_key = "B" /\ nk.key_modifier = "Sharp"
                                   THEN ArithI8(oc, octave - 1)
                                ELSE IF nk.base_key = "C" /\ nk.key_modifier = "Flat"
                                   THEN ArithI8(oc, octave + 1)
                                ELSE Ok(octave)
                      IN  IF IsOk(o) THEN Ok(Some(NamedNote_new(nk, o.val)))
                          ELSE Panic

\* a mutant of NamedNote_to_note: the pitch class of the whole name, composed
\* with the octave
NamedNote_to_note_by_key(oc, named_note) ==
    Note_compose(oc, NamedKey_to_key(oc, named_note.key), named_note.octave)

\* NamedNote::to_note:
\*   Note::compose(self.key.base_key.to_key(), self.octave)
\*     + &self.key.key_modifier.get_value()
NamedNote_to_note(oc, named_note) ==
    LET n == Note_compose(oc, BaseKey_to_key(named_note.key.base_key), named_note.octave)
    IN  IF ~IsOk(n) THEN Panic
        ELSE Note_add(oc, n.val, get_value(named_note.key.key_modifier))

---------------------------------------------------------------------------
(* key.rs: names as text *)

\* A text is a sequence of characters; a character is written as itself
\* when it is ASCII and as its code point otherwise.

\* impl Display for KeyModifier: the string literal of each modifier, as the
\* source file holds it (3, 3 and 4 characters)
KeyModifier_fmt(key_modifier) ==
    CASE key_modifier = "Natural"     -> << >>
      [] key_modifier = "Flat"        -> <<"U+201A", "U+00F4", "U+2260">>
      [] key_modifier = "Sharp"       -> <<"U+201A", "U+00F4", "U+00D8">>
      [] key_modifier = "DoubleSharp" -> <<"U+F8FF", "U+00F9", "U+00D1", "U+2122">>

\* impl Display for BaseKey
BaseKey_fmt(base_key) == <<base_key>>

\* impl Display for NamedKey: write!(f, "{}{}", self.base_key, self.key_modifier)
NamedKey_fmt(named_key) ==
    BaseKey_fmt(named_key.base_key) \o KeyModifier_fmt(named_key.key_modifier)

\* the character class of the two regular expressions:
\*   [b U+201A U+00F4 U+2260 # U+201A U+00F4 U+00D8 x U+F8FF U+00F9 U+00D1 U+2122]
ModifierClass ==
    {"b", "U+201A", "U+00F4", "U+2260", "#", "U+00D8", "x",
     "U+F8FF", "U+00F9", "U+00D1", "U+2122"}

\* the class [A-G]
LetterClass == {"A", "B", "C", "D", "E", "F", "G"}

\* the class [0-9], in order
DigitChars == <<"0", "1", "2", "3", "4", "5", "6", "7", "8", "9">>

DigitClass == {DigitChars[i] : i \in 1 .. 10}

DigitValue(c) == (CHOOSE i \in 1 .. 10 : DigitChars[i] = c) - 1

\* [A-G][class]? : a letter, then at most one character of the class
MatchesKeyPart(s) ==
    /\ Len(s) \in {1, 2}
    /\ s[1] \in LetterClass
    /\ Len(s) = 2 => s[2] \in ModifierClass

\* impl FromStr for NamedKey: the regular expression ^([A-G])([class])?$,
\* then the two matches on the captures
NamedKey_from_str(s) ==
    IF ~MatchesKeyPart(s) THEN Err("Invalid key")
    ELSE LET base_key == s[1]
             modifier == Tail(s)
         IN  IF modifier = << >> THEN Ok(NamedKey_new(base_key, "Natural"))
             ELSE IF modifier \in {<<"b">>, KeyModifier_fmt("Flat")}
                  THEN Ok(NamedKey_new(base_key, "Flat"))
             ELSE IF modifier \in {<<"#">>, KeyModifier_fmt("Sharp")}
                  THEN Ok(NamedKey_new(base_key, "Sharp"))
             ELSE IF modifier \in {<<"x">>, KeyModifier_fmt("DoubleSharp")}
                  THEN Ok(NamedKey_new(base_key, "DoubleSharp"))
             ELSE Err("Invalid key")

\* the decimal digits of a natural number
RECURSIVE Nat_fmt(_)
Nat_fmt(n) ==
    IF n < 10 THEN <<DigitChars[n + 1]>>
    ELSE Append(Nat_fmt(n \div 10), DigitChars[(n % 10) + 1])

\* impl Display for i8
I8_fmt(n) == IF n < 0 THEN <<"-">> \o Nat_fmt(-n) ELSE Nat_fmt(n)

\* the value of a run of digits
RECURSIVE DigitsValue(_)
DigitsValue(digits) ==
    IF digits = << >> THEN 0
    ELSE 10 * DigitsValue(SubSeq(digits, 1, Len(digits) - 1))
           + DigitValue(digits[Len(digits)])

\* str::parse::<i8>: an optional sign, then digits, the value within i8
parse_i8(s) ==
    LET signed == Len(s) > 0 /\ s[1] \in {"-", "+"}
        digits == IF signed THEN Tail(s) ELSE s
    IN  IF digits = << >> \/ \E i \in 1 .. Len(digits) : digits[i] \notin DigitClass
        THEN Err("ParseIntError")
        ELSE LET v == DigitsValue(digits)
                 n == IF signed /\ s[1] = "-" THEN -v ELSE v
             IN  IF n \in I8 THEN Ok(n) ELSE Err("ParseIntError")

\* the captures of ^([A-G][class]?)(-1|[0-9])$ on s, or None
NamedNote_captures(s) ==
    LET n == Len(s)
    IN  IF n >= 3 /\ SubSeq(s, n - 1, n) = <<"-", "1">>
             /\ MatchesKeyPart(SubSeq(s, 1, n - 2))
        THEN Some(<<SubSeq(s, 1, n - 2), SubSeq(s, n - 1, n)>>)
        ELSE IF n >= 2 /\ s[n] \in DigitClass /\ MatchesKeyPart(SubSeq(s, 1, n - 1))
        THEN Some(<<SubSeq(s, 1, n - 1), SubSeq(s, n, n)>>)
        ELSE None

\* impl FromStr for NamedNote
NamedNote_from_str(s) ==
    LET captures == NamedNote_captures(s)
    IN  IF captures = None THEN Err("Invalid note")
        ELSE LET key    == NamedKey_from_str(captures.val[1])
                 octave == parse_i8(captures.val[2])
             IN  IF ~IsOk(key) THEN key
                 ELSE IF ~IsOk(octave) THEN Err("Invalid note")
                 ELSE Ok(NamedNote_new(key.val, octave.val))

\* impl Display for NamedNote: write!(f, "{}{}", self.key, self.octave)
NamedNote_fmt(named_note) ==
    NamedKey_fmt(named_note.key) \o I8_fmt(named_note.octave)

---------------------------------------------------------------------------
(* scale.rs: Scale *)

\* a mutant of ValidateOffsets: equal neighbours pass (`>` for `>=`)
RECURSIVE ValidateOffsetsNonStrict(_, _)
ValidateOffsetsNonStrict(offsets, i) ==
    IF i > Len(offsets) THEN Ok(TRUE)
    ELSE IF offsets[i] < 0 \/ offsets[i] > 11
         THEN Err("All offsets must be between 0 and 11!")
    ELSE IF i > 1 /\ offsets[i - 1] > offsets[i]
         THEN Err("Offsets must be in strictly increasing order!")
    ELSE ValidateOffsetsNonStrict(offsets, i + 1)

\* Scale::new, the validation loop from offset i on (previous_offset is
\* offsets[i - 1], None before the first)
RECURSIVE ValidateOffsets(_, _)
ValidateOffsets(offsets, i) ==
    IF i > Len(offsets) THEN Ok(TRUE)
    ELSE IF offsets[i] < 0 \/ offsets[i] > 11
         THEN Err("All offsets must be between 0 and 11!")
    ELSE IF i > 1 /\ offsets[i - 1] >= offsets[i]
         THEN Err("Offsets must be in strictly increasing order!")
    ELSE ValidateOffsets(offsets, i + 1)

\* a mutant of generate_elements_from: the letter on top of the stack is
\* popped by a fallback as well
RECURSIVE generate_elements_from_pop_always(_, _, _, _, _, _)
generate_elements_from_pop_always(oc, start, offsets, i, keys_stack, elements) ==
    IF i > Len(offsets) THEN Ok(elements)
    ELSE LET key == Key_add(oc, NamedKey_to_key(oc, start), offsets[i])
         IN  IF ~IsOk(key) THEN Panic
             ELSE LET get_default_key == get_default_named_key(key.val)
                      spelled ==
                          IF keys_stack = <<>> THEN None
                          ELSE get_named_key_starting_with(
                                   key.val, keys_stack[Len(keys_stack)])
                      popped ==
                          IF keys_stack = <<>> THEN <<>>
                          ELSE SubSeq(keys_stack, 1, Len(keys_stack) - 1)
                  IN  IF spelled # None
                      THEN generate_elements_from_pop_always(oc,
                               start, offsets, i + 1, popped,
                               Append(elements, spelled.val))
                      ELSE IF ~IsOk(get_default_key) THEN Panic
                      ELSE generate_elements_from_pop_always(oc,
                               start, offsets, i + 1, popped,
                               Append(elements, get_default_key.val))

\* Scale::generate_elements, the loop from offset i on; keys_stack is a
\* sequence whose last element is the top of the stack
RECURSIVE generate_elements_from(_, _, _, _, _, _)
generate_elements_from(oc, start, offsets, i, keys_stack, elements) ==
    IF i > Len(offsets) THEN Ok(elements)
    ELSE LET key == Key_add(oc, NamedKey_to_key(oc, start), offsets[i])
         IN  IF ~IsOk(key) THEN Panic
             ELSE LET get_default_key == get_default_named_key(key.val)
                      spelled ==
                          IF keys_stack = <<>> THEN None
                          ELSE get_named_key_starting_with(
                                   key.val, keys_stack[Len(keys_stack)])
                  IN  IF spelled # None
                      THEN generate_elements_from(oc,
                               start, offsets, i + 1,
                               SubSeq(keys_stack, 1, Len(keys_stack) - 1),
                               Append(elements, spelled.val))
                      ELSE IF ~IsOk(get_default_key) THEN Panic
                      ELSE generate_elements_from(oc,
                               start, offsets, i + 1, keys_stack,
                               Append(elements, get_default_key.val))

\* Scale::generate_elements
generate_elements(oc, start, offsets) ==
    LET keys_in_order == get_keys_in_order(start.base_key)
        keys_stack    == [i \in 1 .. 7 |-> keys_in_order[8 - i]]
    IN  generate_elements_from(oc, start, offsets, 1, keys_stack, <<>>)

\* Scale::new
Scale_new(oc, start, offsets) ==
    LET valid == ValidateOffsets(offsets, 1)
    IN  IF ~IsOk(valid) THEN valid
        ELSE LET elements == generate_elements(oc, start, offsets)
             IN  IF ~IsOk(elements) THEN Panic
                 ELSE Ok([start |-> start, offsets |-> offsets,
                          elements |-> elements.val])

\* a mutant of get_index_and_additional_octaves: `%` and `/` for rem_euclid
\* and div_euclid
get_index_and_additional_octaves_trunc(scale, position) ==
    LET len == TryIntoI8(Len(scale.offsets))
    IN  IF ~IsOk(len) \/ len.val = 0 THEN Panic
        ELSE LET index              == TruncRem(position, len.val)
                 additional_octaves == TruncDiv(position, len.val)
             IN  IF index < 0 THEN Panic
                 ELSE Ok([index |-> index, additional_octaves |-> additional_octaves])

\* Scale::get_index_and_additional_octaves (index is 0-based, as in the code)
get_index_and_additional_octaves(scale, position) ==
    LET len == TryIntoI8(Len(scale.offsets))
    IN  IF ~IsOk(len) \/ len.val = 0 THEN Panic
        ELSE LET index              == rem_euclid(position, len.val)
                 additional_octaves == div_euclid(position, len.val)
             IN  IF index < 0 THEN Panic
                 ELSE Ok([index |-> index, additional_octaves |-> additional_octaves])

\* Scale::get_note
get_note(oc, scale, position, octave) ==
    LET ia == get_index_and_additional_octaves(scale, position)
    IN  IF ~IsOk(ia) THEN Panic
        ELSE LET o == ArithI8(oc, octave + ia.val.additional_octaves)
             IN  IF ~IsOk(o) THEN Panic
                 ELSE LET n == Note_compose(oc, NamedKey_to_key(oc, scale.start), o.val)
                      IN  IF ~IsOk(n) THEN Panic
                          ELSE Note_add(oc, n.val, scale.offsets[ia.val.index + 1])

\* Scale::get_named_note
get_named_note(oc, scale, position, octave) ==
    LET ia == get_index_and_additional_octaves(scale, position)
    IN  IF ~IsOk(ia) THEN Panic
        ELSE LET note == get_note(oc, scale, position, octave)
             IN  IF ~IsOk(note) THEN Panic
                 ELSE LET named == get_named_note_starting_with(oc,
                                       note.val,
                                       scale.elements[ia.val.index + 1].base_key)
                      IN  IF ~IsOk(named) \/ named.val = None THEN Panic
                          ELSE Ok(named.val.val)

---------------------------------------------------------------------------
(* track.rs, chord.rs: the timeline compiler *)

TICKS_PER_BEAT == 24

\* TrackEvent { delta, kind: TrackEventKind::Midi { channel, message } }
MidiEvent(delta, channel, message) ==
    [delta |-> delta, kind |-> "Midi", channel |-> channel, message |-> message]

\* TrackEvent { delta, kind: TrackEventKind::Meta(message) }
MetaEvent(delta, message) ==
    [delta |-> delta, kind |-> "Meta", message |-> message]

ProgramChange(program) == [type |-> "ProgramChange", program |-> program]

NoteOn(key, vel) == [type |-> "NoteOn", key |-> key, vel |-> vel]

NoteOff(key, vel) == [type |-> "NoteOff", key |-> key, vel |-> vel]

EndOfTrack == [type |-> "EndOfTrack"]

\* a mutant of Voice_to_midi_from: the pending delta is not reset after a note
RECURSIVE Voice_to_midi_from_no_reset(_, _, _, _, _, _)
Voice_to_midi_from_no_reset(oc, voice, channel, i, next_note_delta, track_events) ==
    IF i > Len(voice.notes)
    THEN Ok(Append(track_events, MetaEvent(0, EndOfTrack)))
    ELSE LET note     == voice.notes[i][1]
             duration == voice.notes[i][2]
         IN  IF note # None
             THEN LET key == get_note(oc, voice.scale, note.val, voice.octave)
                  IN  IF ~IsOk(key) THEN Panic
                      ELSE Voice_to_midi_from_no_reset(oc,
                               voice, channel, i + 1, next_note_delta,
                               track_events
                                 \o <<MidiEvent(next_note_delta, channel,
                                                NoteOn(key.val, 127)),
                                      MidiEvent(duration, channel,
                                                NoteOff(key.val, 127))>>)
             ELSE Voice_to_midi_from_no_reset(oc,
                      voice, channel, i + 1, next_note_delta + duration,
                      track_events)

\* Voice::to_midi, the loop over self.notes from entry i on
RECURSIVE Voice_to_midi_from(_, _, _, _, _, _)
Voice_to_midi_from(oc, voice, channel, i, next_note_delta, track_events) ==
    IF i > Len(voice.notes)
    THEN Ok(Append(track_events, MetaEvent(0, EndOfTrack)))
    ELSE LET note     == voice.notes[i][1]
             duration == voice.notes[i][2]
         IN  IF note # None
             THEN LET key == get_note(oc, voice.scale, note.val, voice.octave)
                  IN  IF ~IsOk(key) THEN Panic
                      ELSE Voice_to_midi_from(oc,
                               voice, channel, i + 1, 0,
                               track_events
                                 \o <<MidiEvent(next_note_delta, channel,
                                                NoteOn(key.val, 127)),
                                      MidiEvent(duration, channel,
                                                NoteOff(key.val, 127))>>)
             ELSE Voice_to_midi_from(oc,
                      voice, channel, i + 1, next_note_delta + duration,
                      track_events)

\* Voice::to_midi
Voice_to_midi(oc, voice, instrument, channel) ==
    LET next_note_delta == voice.start * TICKS_PER_BEAT
    IN  Voice_to_midi_from(oc,
            voice, channel, 1, next_note_delta,
            <<MidiEvent(0, channel, ProgramChange(instrument))>>)

\* Chord::to_midi, the first inner loop: one note-on per position of the
\* chord from position j on; returns the events and the pending delta
RECURSIVE Chord_note_ons(_, _, _, _, _, _)
Chord_note_ons(oc, chord, channel, j, next_note_delta, track_events) ==
    IF j > Len(chord.chord)
    THEN Ok([track_events |-> track_events, next_note_delta |-> next_note_delta])
    ELSE LET key == get_note(oc, chord.scale, chord.chord[j], chord.octave)
         IN  IF ~IsOk(key) THEN Panic
             ELSE Chord_note_ons(oc,
                      chord, channel, j + 1, 0,
                      Append(track_events,
                             MidiEvent(next_note_delta, channel, NoteOn(key.val, 127))))

\* Chord::to_midi, the second inner loop: one note-off per position
RECURSIVE Chord_note_offs(_, _, _, _, _, _)
Chord_note_offs(oc, chord, channel, j, duration, track_events) ==
    IF j > Len(chord.chord) THEN Ok(track_events)
    ELSE LET key == get_note(oc, chord.scale, chord.chord[j], chord.octave)
         IN  IF ~IsOk(key) THEN Panic
             ELSE Chord_note_offs(oc,
                      chord, channel, j + 1, duration,
                      Append(track_events,
                             MidiEvent(duration, channel, NoteOff(key.val, 127))))

\* Chord::to_midi, the loop over self.notes from entry i on
RECURSIVE Chord_to_midi_from(_, _, _, _, _, _)
Chord_to_midi_from(oc, chord, channel, i, next_note_delta, track_events) ==
    IF i > Len(chord.notes) THEN Ok(track_events)
    ELSE LET is_played == chord.notes[i][1]
             duration  == chord.notes[i][2]
         IN  IF is_played
             THEN LET ons == Chord_note_ons(oc, chord, channel, 1, next_note_delta,
                                            track_events)
                  IN  IF ~IsOk(ons) THEN Panic
                      ELSE LET offs == Chord_note_offs(oc, chord, channel, 1, duration,
                                                       ons.val.track_events)
                           IN  IF ~IsOk(offs) THEN Panic
                               ELSE Chord_to_midi_from(oc,
                                        chord, channel, i + 1,
                                        ons.val.next_note_delta, offs.val)
             ELSE Chord_to_midi_from(oc,
                      chord, channel, i + 1, next_note_delta + duration,
                      track_events)

\* Chord::to_midi
Chord_to_midi(oc, chord, channel) ==
    Chord_to_midi_from(oc, chord, channel, 1, 0,
                       <<MidiEvent(0, channel, ProgramChange(1))>>)

\* track.to_midi(instrument, channel) on a Box<dyn Track>
Track_to_midi(oc, track, instrument, channel) ==
    IF track.type = "voice" THEN Voice_to_midi(oc, track, instrument, channel)
    ELSE Chord_to_midi(oc, track, channel)

\* midly's u24::from(u32), applied by `microseconds_per_beat.into()`: the
\* low 24 bits
u24_from(raw) == raw % 16777216

\* Piece::write_midi, the first track
header_track(microseconds_per_beat) ==
    <<MetaEvent(0, [type |-> "Tempo", tempo |-> u24_from(microseconds_per_beat)]),
      MetaEvent(0, [type |-> "TimeSignature", sig |-> <<4, 2, 24, 8>>]),
      MetaEvent(0, EndOfTrack)>>

\* Piece::write_midi, one turn of the loop, for the 0-based index i:
\*   track.to_midi(1, u8::try_from(i).unwrap() % 16)
track_to_midi_at(oc, piece, i) ==
    LET i_u8 == TryIntoU8(i)
    IN  IF ~IsOk(i_u8) THEN Panic
        ELSE Track_to_midi(oc, piece.tracks[i + 1], 1, TruncRem(i_u8.val, 16))

\* Piece::write_midi, the loop over self.tracks.iter().enumerate() from the
\* 0-based index i on: each turn pushes its track, a turn that panics ends
\* the call
write_midi_from(oc, piece, i, tracks) ==
    LET n     == Len(piece.tracks)
        turns == [k \in i .. n - 1 |-> track_to_midi_at(oc, piece, k)]
    IN  IF \E k \in i .. n - 1 : ~IsOk(turns[k]) THEN Panic
        ELSE Ok(tracks \o [j \in 1 .. n - i |-> turns[i + j - 1].val])

\* Piece::write_midi: the tracks handed to midly::write_std
write_midi(oc, piece) ==
    IF piece.bpm = 0 THEN Panic
    ELSE LET microseconds_per_beat == TruncDiv(500000 * 120, piece.bpm)
         IN  write_midi_from(oc, piece, 0, <<header_track(microseconds_per_beat)>>)

---------------------------------------------------------------------------
(* json_input.rs: the tracks of a piece and their starts *)

\* The integers of a start are u32, u64 and i64 values.  Such an integer n is
\* held as the pair <<hi, lo>> with n = hi * LIMB + lo and lo in 0 .. LIMB - 1,
\* so that the bounds of u32 are the bounds of hi.
LIMB == 256 * 256

Wide(n) == <<n \div LIMB, n % LIMB>>

WideAdd(a, b) ==
    LET lo == a[2] + b[2]
    IN  <<a[1] + b[1] + (lo \div LIMB), lo % LIMB>>

WideNonNegative(a) == a[1] >= 0

\* u32::MAX
U32_MAX == <<LIMB - 1, LIMB - 1>>

\* u32::try_from(n).is_ok()
InU32(a) == a[1] \in 0 .. LIMB - 1

\* serde_json::Value: an integer Number, a String, an Object with its
\* entries in iteration order
JNumber(n) == [json |-> "Number", n |-> n]

JString(s) == [json |-> "String", s |-> s]

JObject(entries) == [json |-> "Object", entries |-> entries]

\* IndexMap::get
IndexMap_get(map, key) ==
    IF \E i \in 1 .. Len(map) : map[i][1] = key
    THEN Some(map[CHOOSE i \in 1 .. Len(map) : map[i][1] = key][2])
    ELSE None

\* IndexMap::insert: the value of a key already there is replaced where it
\* is, a new key goes last
IndexMap_insert(map, key, value) ==
    IF \E i \in 1 .. Len(map) : map[i][1] = key
    THEN [i \in 1 .. Len(map) |-> IF map[i][1] = key THEN <<key, value>> ELSE map[i]]
    ELSE Append(map, <<key, value>>)

\* IndexMap::into_values
IndexMap_into_values(map) == [i \in 1 .. Len(map) |-> map[i][2]]

\* a mutant of parse_track_start_entries: the offset is not added
RECURSIVE parse_track_start_entries_no_offset(_, _, _, _)
parse_track_start_entries_no_offset(entries, tracks_by_id, i, track_start) ==
    IF i > Len(entries) THEN Ok(track_start)
    ELSE LET reference_track == IndexMap_get(tracks_by_id, entries[i][1])
             value           == entries[i][2]
         IN  IF reference_track = None THEN Err("Invalid reference track!")
             ELSE IF value.json # "Number"
                  THEN Err("Offset to reference track must be int!")
             ELSE parse_track_start_entries_no_offset(
                      entries, tracks_by_id, i + 1, Some(reference_track.val.start))

\* parse_track_start, the loop over the entries of the object from entry i on
RECURSIVE parse_track_start_entries(_, _, _, _)
parse_track_start_entries(entries, tracks_by_id, i, track_start) ==
    IF i > Len(entries) THEN Ok(track_start)
    ELSE LET reference_track == IndexMap_get(tracks_by_id, entries[i][1])
             value           == entries[i][2]
         IN  IF reference_track = None THEN Err("Invalid reference track!")
             ELSE IF value.json # "Number"
                  THEN Err("Offset to reference track must be int!")
             ELSE LET offset == WideAdd(reference_track.val.start, value.n)
                  IN  IF ~InU32(offset) THEN Err("Could not cast start to u32!")
                      ELSE parse_track_start_entries(
                               entries, tracks_by_id, i + 1, Some(offset))

\* parse_track_start
parse_track_start(track_start_json, tracks_by_id) ==
    CASE track_start_json.json = "Number" ->
            IF ~WideNonNegative(track_start_json.n)
            THEN Err("Voice start should be a uint!")
            ELSE IF ~InU32(track_start_json.n)
            THEN Err("Could not cast track start to u8!")
            ELSE Ok(track_start_json.n)
      [] track_start_json.json = "Object" ->
            LET track_start ==
                    parse_track_start_entries(track_start_json.entries,
                                              tracks_by_id, 1, None)
            IN  IF ~IsOk(track_start) THEN track_start
                ELSE IF track_start.val # None THEN Ok(track_start.val.val)
                ELSE Err("Empty object!")
      [] OTHER -> Err("start should be int or Json object!")

\* parse_track, parse_voice, parse_chord: the id, then the start; the scale,
\* the octave and the entries of the track are held unparsed in `data`
parse_track(track_json, tracks_by_id) ==
    IF track_json.type \notin {"voice", "chord"} THEN Err("Invalid track type!")
    ELSE LET start == parse_track_start(track_json.start, tracks_by_id)
         IN  IF ~IsOk(start) THEN start
             ELSE Ok([type |-> track_json.type, id |-> track_json.id,
                      start |-> start.val, data |-> track_json.data])

\* parse_piece, the loop over tracks_json from track i on
RECURSIVE parse_piece_from(_, _, _)
parse_piece_from(tracks_json, i, tracks_by_id) ==
    IF i > Len(tracks_json) THEN Ok(tracks_by_id)
    ELSE LET track == parse_track(tracks_json[i], tracks_by_id)
         IN  IF ~IsOk(track) THEN track
             ELSE parse_piece_from(tracks_json, i + 1,
                                   IndexMap_insert(tracks_by_id, track.val.id, track.val))

\* parse_piece, on a JSON object with a bpm and an array of tracks
parse_piece(piece_json) ==
    LET tracks_by_id == parse_piece_from(piece_json.tracks, 1, << >>)
    IN  IF ~IsOk(tracks_by_id) THEN tracks_by_id
        ELSE Ok([bpm |-> piece_json.bpm,
                 tracks |-> IndexMap_into_values(tracks_by_id.val)])

---------------------------------------------------------------------------
(* The inputs the calls are drawn from *)

\* positions of a scale degree: -MaxPosition .. MaxPosition
MaxPosition == 15

Positions == (-MaxPosition) .. MaxPosition

\* the longest offset list handed to Scale::new, besides the 7-degree modes
MaxOffsets == 3

\* the offsets such a list is made of: both ends of [0, 11] and one beyond
OffsetValues == {-1, 0, 1, 2, 11, 12}

\* the longest entry list of a voice or a chord, besides the examples
MaxNotes == 3

\* the most positions of a chord shape
MaxChord == 2

\* the largest start of a voice, in beats
MaxStart == 1

\* the most tracks of a piece: one more than a u8 index counts
MaxTracks == 257

\* the most tracks of a piece whose every smaller size is drawn too
MaxFewTracks == 3

\* the sizes of the pieces: the small ones, both sides of the 16 channels,
\* both sides of the most tracks
PieceSizes == (0 .. MaxFewTracks) \cup {16, 17, MaxTracks - 1, MaxTracks}

SeqsUpTo(S, n) == UNION {[1 .. k -> S] : k \in 0 .. n}

Major == <<0, 2, 4, 5, 7, 9, 11>>

Minor == <<0, 2, 3, 5, 7, 8, 11>>

\* all 12 offsets: more degrees than letters
Chromatic == <<0, 1, 2, 3, 4, 5, 6, 7, 8, 9, 10, 11>>

OffsetLists == SeqsUpTo(OffsetValues, MaxOffsets) \cup {Major, Minor, Chromatic}

\* the anchors of the scales whose notes are asked for
ScaleAnchors ==
    {NamedKey_new("C", "Natural"), NamedKey_new("D", "Natural"),
     NamedKey_new("E", "Flat"), NamedKey_new("F", "Sharp"),
     NamedKey_new("G", "Sharp"), NamedKey_new("B", "Natural"),
     NamedKey_new("B", "Sharp"), NamedKey_new("C", "Flat")}

\* the scales the program can hold: what Scale::new accepted (no operation of
\* Scale::new on accepted offsets overflows, so the build does not matter)
Scales ==
    {Scale_new(TRUE, start, offsets).val :
        start \in ScaleAnchors,
        offsets \in {o \in SeqsUpTo({0, 2, 11}, MaxOffsets) \cup {Major, Minor} :
                        IsOk(ValidateOffsets(o, 1))}}

C_major == Scale_new(TRUE, NamedKey_new("C", "Natural"), Major).val

Eb_minor == Scale_new(TRUE, NamedKey_new("E", "Flat"), Minor).val

\* the voice of the end-to-end example
ExampleNotes ==
    <<<<None, 12>>, <<Some(0), 12>>, <<Some(2), 24>>, <<None, 24>>, <<Some(4), 12>>>>

VoiceEntries == {<<n, d>> : n \in {None, Some(0), Some(2)}, d \in {12, 24}}

Voices ==
    {[type |-> "voice", id |-> "voice_1", scale |-> sc, octave |-> 4,
      start |-> st, notes |-> ns] :
        sc \in {C_major}, st \in 0 .. MaxStart,
        ns \in SeqsUpTo(VoiceEntries, MaxNotes) \cup {ExampleNotes}}

\* the entries of the test can_generate_left_hand_midi
LeftHandNotes ==
    <<<<TRUE, 12>>, <<TRUE, 24>>, <<TRUE, 24>>, <<FALSE, 24>>, <<TRUE, 12>>>>

ChordEntries == {<<p, d>> : p \in BOOLEAN, d \in {12, 24}}

Chords ==
    {[type |-> "chord", scale |-> C_major, chord |-> ch, octave |-> 3,
      notes |-> ns] :
        ch \in SeqsUpTo({0, 2}, MaxChord) \cup {<<0, 2, 6>>},
        ns \in SeqsUpTo(ChordEntries, MaxNotes) \cup {LeftHandNotes}}

\* the track at 0-based index k of a piece of the given kind: every track of
\* a piece differs from its neighbours, so that their order shows
TrackAt(kind, k) ==
    IF kind = "voices" \/ (kind = "mixed" /\ k % 2 = 0)
    THEN [type |-> "voice", id |-> "voice", scale |-> C_major, octave |-> 4,
          start |-> k, notes |-> <<<<Some(k % 7), 12>>>>]
    ELSE [type |-> "chord", scale |-> C_major, chord |-> <<0, 2>>, octave |-> 3,
          notes |-> <<<<FALSE, (k % 200) + 1>>, <<TRUE, 12>>>>]

PieceOf(bpm, kind, n) ==
    [bpm |-> bpm, tracks |-> [k \in 1 .. n |-> TrackAt(kind, k - 1)]]

\* the texts handed to NamedKey::from_str: every rendered name, every ASCII
\* name, and texts that are no name
KeyTexts ==
    {NamedKey_fmt(nk) : nk \in NamedKey}
      \cup {<<b, m>> : b \in LetterClass, m \in {"b", "#", "x"}}
      \cup {<< >>, <<"H">>, <<"C", "U+201A">>, <<"C", "b", "b">>, <<"c">>}

\* the octaves written after a name: both sides of -1..9
OctaveTexts == {I8_fmt(n) : n \in -2 .. 10} \cup {<< >>}

NoteTexts == {k \o o : k \in KeyTexts, o \in OctaveTexts}

\* the most tracks of a parsed piece
MaxJsonTracks == 3

TrackIds == {"a", "b"}

\* the starts of the parsed tracks: numbers up to u32::MAX, references to
\* the ids and to an id no track has, each with an offset, an empty object,
\* and a string
StartJsons ==
    {JNumber(Wide(0)), JNumber(Wide(1)), JNumber(U32_MAX), JString("0"),
     JObject(<< >>)}
      \cup {JObject(<<<<"a", JNumber(Wide(k))>>>>) : k \in {-1, 1}}
      \cup {JObject(<<<<"b", JNumber(Wide(1))>>>>),
            JObject(<<<<"c", JNumber(Wide(0))>>>>)}

\* the tracks of the parsed pieces: the voices are named "a", the chords "b"
TrackJsons ==
    {[type |-> IF id = "a" THEN "voice" ELSE "chord", id |-> id, start |-> st,
      data |-> "Cmaj"] : id \in TrackIds, st \in StartJsons}

---------------------------------------------------------------------------
(* The calls *)

Idle == call.op = "idle"

Init ==
    /\ overflow_checks \in BOOLEAN
    /\ call = [op |-> "idle"]
    /\ ret = None

Returns(c, r) ==
    /\ call' = c
    /\ ret' = r
    /\ UNCHANGED overflow_checks

KeyNew ==
    /\ Idle
    /\ \E i \in I8 : Returns([op |-> "Key::new", key |-> i], Ok(Key_new(i)))

GetNamedKeyStartingWith ==
    /\ Idle
    /\ \E k \in 0 .. 11, b \in BaseKey :
           Returns([op |-> "Key::get_named_key_starting_with", key |-> k, base_key |-> b],
                   Ok(get_named_key_starting_with(k, b)))

NoteDecompose ==
    /\ Idle
    /\ \E n \in U8 : Returns([op |-> "Note::decompose", note |-> n], Note_decompose(overflow_checks, n))

NoteCompose ==
    /\ Idle
    /\ \E k \in 0 .. 11, o \in I8 :
           Returns([op |-> "Note::compose", key |-> k, octave |-> o], Note_compose(overflow_checks, k, o))

NamedNoteToNote ==
    /\ Idle
    /\ \E nk \in NamedKey, o \in I8 :
           Returns([op |-> "NamedNote::to_note", named_note |-> NamedNote_new(nk, o)],
                   NamedNote_to_note(overflow_checks, NamedNote_new(nk, o)))

ScaleNew ==
    /\ Idle
    /\ \E start \in NamedKey, offsets \in OffsetLists :
           /\ start \in ScaleAnchors \/ offsets \in {Major, Minor, Chromatic}
           /\ Returns([op |-> "Scale::new", start |-> start, offsets |-> offsets],
                      Scale_new(overflow_checks, start, offsets))

ScaleGetNote ==
    /\ Idle
    /\ \E sc \in Scales, p \in Positions, o \in {-1, 4, 9} :
           Returns([op |-> "Scale::get_note", scale |-> sc, position |-> p, octave |-> o],
                   get_note(overflow_checks, sc, p, o))

ScaleGetNamedNote ==
    /\ Idle
    /\ \E sc \in Scales, p \in Positions, o \in {-1, 4, 9} :
           Returns([op |-> "Scale::get_named_note", scale |-> sc, position |-> p,
                    octave |-> o],
                   get_named_note(overflow_checks, sc, p, o))

VoiceToMidi ==
    /\ Idle
    /\ \E v \in Voices, ch \in {0, 15} :
           Returns([op |-> "Voice::to_midi", voice |-> v, instrument |-> 1,
                    channel |-> ch],
                   Voice_to_midi(overflow_checks, v, 1, ch))

ChordToMidi ==
    /\ Idle
    /\ \E c \in Chords, ch \in {0, 15} :
           Returns([op |-> "Chord::to_midi", chord |-> c, channel |-> ch],
                   Chord_to_midi(overflow_checks, c, ch))

WriteMidi ==
    /\ Idle
    /\ \E bpm \in U8, kind \in {"voices", "chords", "mixed"}, n \in PieceSizes :
           /\ bpm = 120 \/ n <= 1
           /\ Returns([op |-> "Piece::write_midi", piece |-> PieceOf(bpm, kind, n)],
                      write_midi(overflow_checks, PieceOf(bpm, kind, n)))

NoteGetNamedNoteStartingWith ==
    /\ Idle
    /\ \E n \in U8, b \in BaseKey :
           Returns([op |-> "Note::get_named_note_starting_with", note |-> n,
                    base_key |-> b],
                   get_named_note_starting_with(overflow_checks, n, b))

ParsePiece ==
    /\ Idle
    /\ \E tracks_json \in SeqsUpTo(TrackJsons, MaxJsonTracks) :
           Returns([op |-> "parse_piece",
                    piece_json |-> [bpm |-> 120, tracks |-> tracks_json]],
                   parse_piece([bpm |-> 120, tracks |-> tracks_json]))

NamedKeyFmt ==
    /\ Idle
    /\ \E nk \in NamedKey :
           Returns([op |-> "NamedKey::fmt", named_key |-> nk], Ok(NamedKey_fmt(nk)))

NamedKeyFromStr ==
    /\ Idle
    /\ \E s \in KeyTexts :
           Returns([op |-> "NamedKey::from_str", s |-> s], NamedKey_from_str(s))

NamedNoteFmt ==
    /\ Idle
    /\ \E nk \in NamedKey, o \in -2 .. 10 :
           Returns([op |-> "NamedNote::fmt", named_note |-> NamedNote_new(nk, o)],
                   Ok(NamedNote_fmt(NamedNote_new(nk, o))))

NamedNoteFromStr ==
    /\ Idle
    /\ \E s \in NoteTexts :
           Returns([op |-> "NamedNote::from_str", s |-> s], NamedNote_from_str(s))

Next ==
    \/ KeyNew
    \/ GetNamedKeyStartingWith
    \/ NoteDecompose
    \/ NoteCompose
    \/ NamedNoteToNote
    \/ ScaleNew
    \/ ScaleGetNote
    \/ ScaleGetNamedNote
    \/ VoiceToMidi
    \/ ChordToMidi
    \/ WriteMidi
    \/ NamedKeyFmt
    \/ NamedKeyFromStr
    \/ NamedNoteFmt
    \/ NamedNoteFromStr
    \/ NoteGetNamedNoteStartingWith
    \/ ParsePiece

Spec == Init /\ [][Next]_vars

---------------------------------------------------------------------------
(* Properties *)

Nat_(b) == NamedKey_new(b, "Natural")

\* C1: for every absolute pitch p in 0..127, Note(p).decompose() succeeds and
\* Note::compose of the (Key, octave) it returns is Note(p) again; the pitches
\* 0..11 decompose to octave -1.
C1_ComposeDecompose ==
    (call.op = "Note::decompose" /\ call.note \in 0 .. 127) =>
        /\ IsOk(ret)
        /\ Note_compose(overflow_checks, ret.val.key, ret.val.octave) = Ok(call.note)
        /\ (call.note \in 0 .. 11 => ret.val.octave = -1)

\* C1, from the second octave on: the round trip of every pitch in 12..127
C1_ComposeDecomposeFrom12 ==
    (call.op = "Note::decompose" /\ call.note \in 12 .. 127) =>
        /\ IsOk(ret)
        /\ Note_compose(overflow_checks, ret.val.key, ret.val.octave) = Ok(call.note)
        /\ ret.val.key = call.note % 12
        /\ ret.val.octave = (call.note \div 12) - 1

\* C2: for every i8 i, Key::new(i) lies in 0..11 and equals Key::new(i + 12k)
\* for every k with i + 12k an i8 as well; Key::new(-1) is 11.
C2_KeyNewPeriodic ==
    call.op = "Key::new" =>
        /\ IsOk(ret)
        /\ ret.val \in 0 .. 11
        /\ \A k \in -22 .. 22 :
              (call.key + 12 * k) \in I8 => Key_new(call.key + 12 * k) = ret.val
        /\ (call.key = -1 => ret.val = 11)

C2_Witness ==
    /\ call.op = "Key::new"
    /\ call.key = -1
    /\ ret = Ok(11)

\* C3: B# at octave o is the note C at octave o + 1, and Cb at octave o the
\* note B at octave o - 1: both conversions succeed and agree when both
\* octaves can be written (-1..9), and agree whenever both succeed; B#3 and
\* C4 are 60, Cb4 and B3 are 59.
C3_LetterOctaveBoundary ==
    call.op = "NamedNote::to_note" =>
        LET nn == call.named_note
            o  == nn.octave
        IN  /\ (nn.key = NamedKey_new("B", "Sharp") /\ o + 1 \in I8) =>
                  LET c == NamedNote_to_note(overflow_checks,
                                             NamedNote_new(Nat_("C"), o + 1))
                  IN  /\ (o \in -1 .. 8) => (IsOk(ret) /\ IsOk(c))
                      /\ (IsOk(ret) /\ IsOk(c)) => ret = c
            /\ (nn.key = NamedKey_new("C", "Flat") /\ o - 1 \in I8) =>
                  LET b == NamedNote_to_note(overflow_checks,
                                             NamedNote_new(Nat_("B"), o - 1))
                  IN  /\ (o \in 0 .. 9) => (IsOk(ret) /\ IsOk(b))
                      /\ (IsOk(ret) /\ IsOk(b)) => ret = b
            /\ (nn = NamedNote_new(NamedKey_new("B", "Sharp"), 3) => ret = Ok(60))
            /\ (nn = NamedNote_new(Nat_("C"), 4) => ret = Ok(60))
            /\ (nn = NamedNote_new(NamedKey_new("C", "Flat"), 4) => ret = Ok(59))
            /\ (nn = NamedNote_new(Nat_("B"), 3) => ret = Ok(59))

C3_Witness ==
    /\ call.op = "NamedNote::to_note"
    /\ call.named_note = NamedNote_new(NamedKey_new("C", "Flat"), 4)
    /\ ret = Ok(59)

\* the pitch of a degree as the scale defines it: offsets[p mod len] above
\* the anchor, floor(p / len) octaves away
DegreePitch(scale, position, octave) ==
    LET len == Len(scale.offsets)
    IN  12 * (octave + (position \div len) + 1)
          + NamedKey_to_key(TRUE, scale.start)
          + scale.offsets[(position % len) + 1]

\* the pitch of the anchor in the octave of a degree
AnchorPitch(scale, position, octave) ==
    12 * (octave + (position \div Len(scale.offsets)) + 1)
      + NamedKey_to_key(TRUE, scale.start)

\* C4: get_note and get_named_note index the degrees by p mod len (Euclidean)
\* at octave + floor(p / len), for negative p as for non-negative p: get_note
\* returns that pitch when it and the anchor's are MIDI pitches, and
\* get_note(p + len, octave) is 12 semitones above get_note(p, octave); in C
\* major at octave 4 the positions -2, -1, 0, 2, 4, 7, 9 are named A3, B3, C4,
\* E4, G4, C5, E5.
C4_EuclideanDegrees ==
    /\ (call.op = "Scale::get_note" /\ Len(call.scale.offsets) > 0) =>
          LET sc   == call.scale
              len  == Len(sc.offsets)
              next == get_note(overflow_checks, sc, call.position + len, call.octave)
          IN  /\ ( /\ AnchorPitch(sc, call.position, call.octave) \in 0 .. 127
                   /\ DegreePitch(sc, call.position, call.octave) \in 0 .. 127 )
                    => ret = Ok(DegreePitch(sc, call.position, call.octave))
              /\ (IsOk(ret) /\ call.position + len \in I8 /\ IsOk(next))
                    => next.val = ret.val + 12
    /\ ( /\ call.op = "Scale::get_named_note"
         /\ call.scale = C_major
         /\ call.octave = 4 ) =>
          /\ (call.position = -2 => ret = Ok(NamedNote_new(Nat_("A"), 3)))
          /\ (call.position = -1 => ret = Ok(NamedNote_new(Nat_("B"), 3)))
          /\ (call.position = 0 => ret = Ok(NamedNote_new(Nat_("C"), 4)))
          /\ (call.position = 2 => ret = Ok(NamedNote_new(Nat_("E"), 4)))
          /\ (call.position = 4 => ret = Ok(NamedNote_new(Nat_("G"), 4)))
          /\ (call.position = 7 => ret = Ok(NamedNote_new(Nat_("C"), 5)))
          /\ (call.position = 9 => ret = Ok(NamedNote_new(Nat_("E"), 5)))

C4_Witness ==
    /\ call.op = "Scale::get_named_note"
    /\ call.scale = C_major
    /\ call.octave = 4
    /\ call.position = -1
    /\ ret = Ok(NamedNote_new(Nat_("B"), 3))

\* the anchor of each of the 12 pitch classes, in the program's spelling of it
DefaultAnchors == {get_default_named_key(k).val : k \in 0 .. 11}

\* the anchors of the major scales the tests build
TestAnchors ==
    {Nat_("C"), NamedKey_new("D", "Flat"), Nat_("D"), NamedKey_new("E", "Flat"),
     Nat_("E"), Nat_("F"), NamedKey_new("F", "Sharp"), Nat_("G"),
     NamedKey_new("A", "Flat"), Nat_("A"), NamedKey_new("B", "Flat"), Nat_("B")}

SevenLetters(elements) ==
    /\ Len(elements) = 7
    /\ \A i, j \in 1 .. 7 : i # j => elements[i].base_key # elements[j].base_key

\* C5: the major scale on the anchor of each of the 12 pitch classes has 7
\* spelled degrees with 7 pairwise distinct base letters.
C5_MajorSevenLetters ==
    (call.op = "Scale::new" /\ call.offsets = Major /\ call.start \in DefaultAnchors) =>
        (IsOk(ret) /\ SevenLetters(ret.val.elements))

\* C5, on the 12 anchors of the tests (flats for the black keys but F#)
C5_MajorSevenLettersTestAnchors ==
    (call.op = "Scale::new" /\ call.offsets = Major /\ call.start \in TestAnchors) =>
        (IsOk(ret) /\ SevenLetters(ret.val.elements))

\* the entries of a track that sound, in order (indices into notes)
Sounding(notes, sounds(_)) ==
    LET idx == {i \in 1 .. Len(notes) : sounds(notes[i])}
    IN  [k \in 1 .. Cardinality(idx) |->
            CHOOSE i \in idx : Cardinality({j \in idx : j <= i}) = k]

\* the durations of the entries from..to, added up
RECURSIVE Durations(_, _, _)
Durations(notes, from, to) ==
    IF from > to THEN 0 ELSE notes[from][2] + Durations(notes, from + 1, to)

\* the delta pending before the k-th sounding entry: the start before the
\* first one, and the rests since the sounding entry before it
Pending(notes, snd, k, start_ticks) ==
    IF k = 1 THEN start_ticks + Durations(notes, 1, snd[1] - 1)
    ELSE Durations(notes, snd[k - 1] + 1, snd[k] - 1)

IsNoteOn(e) == e.kind = "Midi" /\ e.message.type = "NoteOn"

IsNoteOff(e) == e.kind = "Midi" /\ e.message.type = "NoteOff"

VoiceSounds(entry) == entry[1] # None

C7_ChannelsAndOrder ==
    (call.op = "Piece::write_midi" /\ call.piece.bpm # 0) =>
        LET tracks == call.piece.tracks
        IN  /\ IsOk(ret)
            /\ Len(ret.val) = Len(tracks) + 1
            /\ \A i \in 0 .. Len(tracks) - 1 :
                  Ok(ret.val[i + 2])
                    = Track_to_midi(overflow_checks, tracks[i + 1], 1, i % 16)

\* C7, for the pieces whose track indices fit a u8 (at most 256 tracks)
C7_ChannelsAndOrderUpTo256 ==
    ( /\ call.op = "Piece::write_midi"
      /\ call.piece.bpm # 0
      /\ Len(call.piece.tracks) <= U8_MAX + 1 ) =>
        LET tracks == call.piece.tracks
        IN  /\ IsOk(ret)
            /\ Len(ret.val) = Len(tracks) + 1
            /\ \A i \in 0 .. Len(tracks) - 1 :
                  Ok(ret.val[i + 2])
                    = Track_to_midi(overflow_checks, tracks[i + 1], 1, i % 16)
            /\ Len(tracks) >= 17 => ret.val[2][1].channel = ret.val[18][1].channel

\* the pitch class a letter with an accidental denotes
Spells(base_key, key_modifier) ==
    (BaseKey_to_key(base_key) + get_value(key_modifier)) % 12

\* C8: Key(k).get_named_key_starting_with(L) returns a spelling exactly when
\* some accidental among flat, natural, sharp, double sharp on L denotes k,
\* and the spelling then has base letter L and to_key() = k.
C8_SpellingTable ==
    call.op = "Key::get_named_key_starting_with" =>
        LET found == ret.val
        IN  /\ (found # None) <=>
                  (\E m \in KeyModifier : Spells(call.base_key, m) = call.key)
            /\ (found # None) =>
                  /\ found.val.base_key = call.base_key
                  /\ NamedKey_to_key(overflow_checks, found.val) = call.key

\* what Scale::new documents as its errors
BadOffsets(offsets) ==
    \/ \E i \in 1 .. Len(offsets) : offsets[i] < 0 \/ offsets[i] > 11
    \/ \E i \in 1 .. Len(offsets) - 1 : offsets[i] >= offsets[i + 1]

\* C9: Scale::new returns an error exactly when an offset is outside [0,11]
\* or the offsets are not strictly increasing; otherwise it returns a Scale
\* with one spelled degree per offset, each found by the letter lookup or the
\* default spelling of its pitch class.
C9_ScaleNewErrors ==
    call.op = "Scale::new" =>
        /\ (ret.tag = "err") <=> BadOffsets(call.offsets)
        /\ ~BadOffsets(call.offsets) =>
              /\ IsOk(ret)
              /\ ret.val.start = call.start
              /\ ret.val.offsets = call.offsets
              /\ Len(ret.val.elements) = Len(call.offsets)
              /\ \A i \in 1 .. Len(call.offsets) :
                    LET key == (NamedKey_to_key(TRUE, call.start) + call.offsets[i]) % 12
                    IN  \/ ret.val.elements[i] = get_default_named_key(key).val
                        \/ \E b \in BaseKey :
                              Some(ret.val.elements[i])
                                = get_named_key_starting_with(key, b)

\* C major's anchor with the offsets 0, 1, 2: C, then Db, then no spelling of
\* pitch class 2 on E, so the default D
C9_Witness ==
    /\ call.op = "Scale::new"
    /\ call.start = Nat_("C")
    /\ call.offsets = <<0, 1, 2>>
    /\ IsOk(ret)
    /\ ret.val.elements = <<Nat_("C"), NamedKey_new("D", "Flat"), Nat_("D")>>

ChordSounds(entry) == entry[1]

\* C10: for a played entry of a chord of n positions Chord::to_midi emits n
\* note-ons, the first with the pending delta and the others with delta 0,
\* then n note-offs, the first with the entry's duration as delta and the
\* others with delta 0.
C10_ChordStacked ==
    call.op = "Chord::to_midi" =>
        LET notes == call.chord.notes
            n     == Len(call.chord.chord)
            snd   == Sounding(notes, ChordSounds)
        IN  /\ IsOk(ret)
            /\ Len(ret.val) >= 1 + 2 * n * Len(snd)
            /\ \A k \in 1 .. Len(snd) : \A j \in 1 .. n :
                  LET base == 1 + 2 * n * (k - 1)
                      on   == ret.val[base + j]
                      off  == ret.val[base + n + j]
                  IN  /\ IsNoteOn(on)
                      /\ on.delta = IF j = 1 THEN Pending(notes, snd, k, 0) ELSE 0
                      /\ IsNoteOff(off)
                      /\ off.message.key = on.message.key
                      /\ off.delta = IF j = 1 THEN notes[snd[k]][2] ELSE 0

\* C10, the note-ons alone, and every note-off carrying the duration
C10_ChordAsCompiled ==
    call.op = "Chord::to_midi" =>
        LET notes == call.chord.notes
            n     == Len(call.chord.chord)
            snd   == Sounding(notes, ChordSounds)
        IN  /\ IsOk(ret)
            /\ Len(ret.val) = 1 + 2 * n * Len(snd)
            /\ \A k \in 1 .. Len(snd) : \A j \in 1 .. n :
                  LET base == 1 + 2 * n * (k - 1)
                      on   == ret.val[base + j]
                      off  == ret.val[base + n + j]
                  IN  /\ IsNoteOn(on)
                      /\ (n > 0 /\ j = 1) => on.delta = Pending(notes, snd, k, 0)
                      /\ j > 1 => on.delta = 0
                      /\ IsNoteOff(off)
                      /\ off.message.key = on.message.key
                      /\ off.delta = notes[snd[k]][2]

---------------------------------------------------------------------------
(* Properties of the header track, the names, the letter stack *)

\* the first track as the specification words it: tempo 500000 x 120 / bpm
HeaderOf(bpm) ==
    <<MetaEvent(0, [type |-> "Tempo", tempo |-> (500000 * 120) \div bpm]),
      MetaEvent(0, [type |-> "TimeSignature", sig |-> <<4, 2, 24, 8>>]),
      MetaEvent(0, EndOfTrack)>>

\* C11: for every bpm in 0..255 Piece::write_midi returns, and its first
\* track is exactly three delta-0 events: the tempo 500000 x 120 / bpm, the
\* 4/4 time signature, the end of track.
C11_HeaderTrack ==
    call.op = "Piece::write_midi" =>
        /\ IsOk(ret)
        /\ ret.val[1] = HeaderOf(call.piece.bpm)

\* C11, where the tempo fits the 24 bits of the tempo event (bpm from 4 on)
C11_HeaderTrackFrom4 ==
    (call.op = "Piece::write_midi" /\ call.piece.bpm >= 4
        /\ Len(call.piece.tracks) <= U8_MAX + 1) =>
        /\ IsOk(ret)
        /\ ret.val[1] = HeaderOf(call.piece.bpm)
        /\ (call.piece.bpm = 120 => ret.val[1][1].message.tempo = 500000)

\* the default spelling of each pitch class, rendered
DefaultKeyTexts == {NamedKey_fmt(d) : d \in DefaultAnchors}

\* the default spellings with an octave in -1..9, rendered
DefaultNoteTexts ==
    {NamedNote_fmt(NamedNote_new(d, o)) : d \in DefaultAnchors, o \in -1 .. 9}

\* C12: every name the default spelling produces, with or without an octave
\* in -1..9, once rendered, is parsed by from_str, and the parsed name renders
\* to the same text.
C12_RenderParseRender ==
    /\ (call.op = "NamedKey::from_str" /\ call.s \in DefaultKeyTexts) =>
          (IsOk(ret) /\ NamedKey_fmt(ret.val) = call.s)
    /\ (call.op = "NamedNote::from_str" /\ call.s \in DefaultNoteTexts) =>
          (IsOk(ret) /\ NamedNote_fmt(ret.val) = call.s)

\* C12, for the names without an accidental: the 7 naturals round-trip, and
\* so does every name parsed from its rendering, once parsed
C12_RenderParseRenderNaturals ==
    /\ (call.op = "NamedKey::from_str" /\ call.s \in DefaultKeyTexts /\ Len(call.s) = 1) =>
          (IsOk(ret) /\ NamedKey_fmt(ret.val) = call.s)
    /\ ( /\ call.op = "NamedNote::from_str"
         /\ call.s \in DefaultNoteTexts
         /\ call.s[2] \in DigitClass \cup {"-"} ) =>
          (IsOk(ret) /\ NamedNote_fmt(ret.val) = call.s)
    /\ (call.op = "NamedKey::from_str" /\ call.s \in DefaultKeyTexts /\ Len(call.s) > 1) =>
          ret = Err("Invalid key")

\* the octave shift of a spelling across the B / C boundary
BoundaryShift(named_key) ==
    IF named_key = NamedKey_new("B", "Sharp") THEN -1
    ELSE IF named_key = NamedKey_new("C", "Flat") THEN 1
    ELSE 0

\* C13: when Note(n).get_named_note_starting_with(L) returns a name m for a
\* pitch n in 0..127, m.to_note() is Note(n), and the octave of m is the
\* decomposed octave, less 1 for B#, plus 1 for Cb.
C13_NamedNoteRoundTrip ==
    ( /\ call.op = "Note::get_named_note_starting_with"
      /\ call.note \in 0 .. 127
      /\ IsOk(ret) /\ ret.val # None ) =>
        LET m == ret.val.val
            d == Note_decompose(overflow_checks, call.note)
        IN  /\ NamedNote_to_note(overflow_checks, m) = Ok(call.note)
            /\ m.octave = d.val.octave + BoundaryShift(m.key)

\* the rows of the lookup table that return another letter than the one asked
WrongRows == {<<2, "C">>, <<7, "F">>, <<9, "G">>}

\* C13, away from the three rows of the table that name another letter
C13_NamedNoteRoundTripRightRows ==
    ( /\ call.op = "Note::get_named_note_starting_with"
      /\ call.note \in 0 .. 127
      /\ <<call.note % 12, call.base_key>> \notin WrongRows
      /\ IsOk(ret) /\ ret.val # None ) =>
        LET m == ret.val.val
            d == Note_decompose(overflow_checks, call.note)
        IN  /\ NamedNote_to_note(overflow_checks, m) = Ok(call.note)
            /\ m.octave = d.val.octave + BoundaryShift(m.key)
            /\ m.key.base_key = call.base_key

\* the pitch class of the degree i of a scale on start
DegreeKey(start, offsets, i) == (NamedKey_to_key(TRUE, start) + offsets[i]) % 12

\* the letters taken from the round-robin order by the degrees before i: one
\* per degree that the letter then next in order spelled
RECURSIVE Taken(_, _, _)
Taken(start, offsets, i) ==
    IF i <= 1 THEN 0
    ELSE LET t == Taken(start, offsets, i - 1)
         IN  IF t < 7 /\ get_named_key_starting_with(
                             DegreeKey(start, offsets, i - 1),
                             get_keys_in_order(start.base_key)[t + 1]) # None
             THEN t + 1
             ELSE t

\* what the degree i attempts: the lookup on the next unused letter, None once
\* the 7 letters are used
Attempt(start, offsets, i) ==
    LET t == Taken(start, offsets, i)
    IN  IF t >= 7 THEN None
        ELSE get_named_key_starting_with(DegreeKey(start, offsets, i),
                                         get_keys_in_order(start.base_key)[t + 1])

\* C14: the letter stack of Scale::generate_elements loses one letter per
\* degree spelled with its top letter and none by a fallback: each degree is
\* the lookup on the next unused letter of the round-robin order when that
\* finds a spelling, and the default spelling otherwise, also once the 7
\* letters are used up.
C14_LetterStack ==
    (call.op = "Scale::new" /\ IsOk(ret)) =>
        /\ \A i \in 1 .. Len(call.offsets) :
              LET a == Attempt(call.start, call.offsets, i)
              IN  ret.val.elements[i] =
                      IF a # None THEN a.val
                      ELSE get_default_named_key(
                               DegreeKey(call.start, call.offsets, i)).val
        /\ ( /\ call.start = NamedKey_new("B", "Sharp")
             /\ call.offsets = <<2, 11>> ) =>
              ret.val.elements = <<Nat_("D"), Nat_("B")>>
        /\ (call.start = Nat_("C") /\ call.offsets = Chromatic) =>
              /\ Taken(call.start, call.offsets, 12) = 7
              /\ ret.val.elements[12] = Nat_("B")

\* B# with the offsets 2, 11: no spelling of pitch class 2 on B, so the
\* default D; then pitch class 11 on the same letter B
C14_Witness ==
    /\ call.op = "Scale::new"
    /\ call.start = NamedKey_new("B", "Sharp")
    /\ call.offsets = <<2, 11>>
    /\ IsOk(ret)
    /\ ret.val.elements = <<Nat_("D"), Nat_("B")>>

\* the tick of the last event of a track: its deltas added up
RECURSIVE SumDeltas(_)
SumDeltas(events) ==
    IF events = << >> THEN 0
    ELSE SumDeltas(SubSeq(events, 1, Len(events) - 1)) + events[Len(events)].delta

\* the durations of the rests after the last sounding entry
TrailingRests(notes, snd) ==
    Durations(notes, (IF Len(snd) = 0 THEN 0 ELSE snd[Len(snd)]) + 1, Len(notes))

\* C15: the deltas of a compiled track add up to start x TICKS_PER_BEAT plus
\* the total duration of its entries, wherever the rests are.
C15_FinalTick ==
    /\ call.op = "Voice::to_midi" =>
          /\ IsOk(ret)
          /\ SumDeltas(ret.val) =
                call.voice.start * TICKS_PER_BEAT
                  + Durations(call.voice.notes, 1, Len(call.voice.notes))
    /\ call.op = "Chord::to_midi" =>
          /\ IsOk(ret)
          /\ SumDeltas(ret.val) =
                Durations(call.chord.notes, 1, Len(call.chord.notes))

\* C15, for voices, less the rests after the last sounding entry (the start
\* as well when no entry sounds)
C15_FinalTickLessTrailingRests ==
    call.op = "Voice::to_midi" =>
        LET notes == call.voice.notes
            snd   == Sounding(notes, VoiceSounds)
        IN  /\ IsOk(ret)
            /\ SumDeltas(ret.val) =
                  IF Len(snd) = 0 THEN 0
                  ELSE call.voice.start * TICKS_PER_BEAT
                         + Durations(notes, 1, Len(notes))
                         - TrailingRests(notes, snd)

\* a compiled track as the output is described: a delta-0 program change on
\* the channel, note-ons and note-offs on the channel, an end of track
WellFormedTrack(events, channel) ==
    /\ Len(events) >= 2
    /\ events[1].kind = "Midi"
    /\ events[1].delta = 0
    /\ events[1].channel = channel
    /\ events[1].message.type = "ProgramChange"
    /\ events[Len(events)].kind = "Meta"
    /\ events[Len(events)].message = EndOfTrack
    /\ \A i \in 2 .. Len(events) - 1 :
          /\ IsNoteOn(events[i]) \/ IsNoteOff(events[i])
          /\ events[i].channel = channel

\* C16: every track compiled by Voice::to_midi or Chord::to_midi, whatever its
\* entries, starts with one delta-0 program change on its channel, ends with
\* an end of track, and holds only note-ons and note-offs on that channel in
\* between.
C16_TrackShape ==
    (call.op \in {"Voice::to_midi", "Chord::to_midi"}) =>
        (IsOk(ret) /\ WellFormedTrack(ret.val, call.channel))

\* C16, for the tracks of Voice::to_midi; a chord's track has the program
\* change and the notes, and no end of track
C16_TrackShapeVoices ==
    /\ call.op = "Voice::to_midi" =>
          /\ IsOk(ret)
          /\ WellFormedTrack(ret.val, call.channel)
          /\ ret.val[1].message.program = call.instrument
    /\ call.op = "Chord::to_midi" =>
          /\ IsOk(ret)
          /\ ret.val[1] = MidiEvent(0, call.channel, ProgramChange(1))
          /\ \A i \in 2 .. Len(ret.val) :
                /\ IsNoteOn(ret.val[i]) \/ IsNoteOff(ret.val[i])
                /\ ret.val[i].channel = call.channel

\* the last track before track i that carries the id, 0 when there is none
EarlierIndex(tracks_json, i, id) ==
    LET earlier == {j \in 1 .. i - 1 : tracks_json[j].id = id}
    IN  IF earlier = {} THEN 0 ELSE CHOOSE j \in earlier : \A k \in earlier : k <= j

\* a start given as {id: offset}
IsReference(start) ==
    /\ start.json = "Object"
    /\ Len(start.entries) = 1
    /\ start.entries[1][2].json = "Number"

\* the start of track i as declared: its number, or the start of the track
\* its id names, declared earlier, plus the offset, when that is not negative
\* (and, when bounded, not above u32::MAX); None otherwise
RECURSIVE ResolvedStart(_, _, _)
ResolvedStart(tracks_json, i, bounded) ==
    LET start == tracks_json[i].start
    IN  IF start.json = "Number"
        THEN IF InU32(start.n) THEN Some(start.n) ELSE None
        ELSE IF ~IsReference(start) THEN None
        ELSE LET j == EarlierIndex(tracks_json, i, start.entries[1][1])
             IN  IF j = 0 THEN None
                 ELSE LET r == ResolvedStart(tracks_json, j, bounded)
                      IN  IF r = None THEN None
                          ELSE LET sum == WideAdd(r.val, start.entries[1][2].n)
                               IN  IF WideNonNegative(sum) /\ (bounded => InU32(sum))
                                   THEN Some(sum)
                                   ELSE None

\* the errors of a start: an empty mapping, a reference to no earlier track,
\* a sum that is negative (and, when bounded, one above u32::MAX)
StartError(tracks_json, i, bounded) ==
    LET start == tracks_json[i].start
    IN  /\ start.json = "Object"
        /\ \/ start.entries = << >>
           \/ /\ IsReference(start)
              /\ LET j == EarlierIndex(tracks_json, i, start.entries[1][1])
                 IN  \/ j = 0
                     \/ /\ ResolvedStart(tracks_json, j, bounded) # None
                        /\ ResolvedStart(tracks_json, i, bounded) = None

\* the relative starts of a parsed piece, as declared
RelativeStarts(bounded) ==
    call.op = "parse_piece" =>
        LET tracks_json == call.piece_json.tracks
            n           == Len(tracks_json)
        IN  /\ (\A i \in 1 .. n : ResolvedStart(tracks_json, i, bounded) # None) =>
                  /\ IsOk(ret)
                  /\ \A i \in 1 .. n :
                        (\A k \in i + 1 .. n : tracks_json[k].id # tracks_json[i].id) =>
                            \E t \in 1 .. Len(ret.val.tracks) :
                                /\ ret.val.tracks[t].id = tracks_json[i].id
                                /\ ret.val.tracks[t].start =
                                      ResolvedStart(tracks_json, i, bounded).val
            /\ (\E i \in 1 .. n : StartError(tracks_json, i, bounded)) =>
                  ret.tag = "err"

FellBack(scale, position) ==
    LET index == position % Len(scale.offsets)
    IN  Attempt(scale.start, scale.offsets, index + 1) = None

\* C18: for every accepted scale, position and octave whose get_note lies in
\* 12 .. 127, get_named_note finds a spelling (also on a degree that fell back
\* to the default) and get_named_note(..).to_note() = get_note(..).
C18_NamedNoteOfDegree ==
    call.op = "Scale::get_named_note" =>
        LET note == get_note(overflow_checks, call.scale, call.position, call.octave)
        IN  (IsOk(note) /\ note.val \in 12 .. 127) =>
                /\ IsOk(ret)
                /\ NamedNote_to_note(overflow_checks, ret.val) = note

\* C18, where no operation of get_note wrapped: the note is the pitch of the
\* degree
C18_NamedNoteOfDegreeUnwrapped ==
    call.op = "Scale::get_named_note" =>
        LET note == get_note(overflow_checks, call.scale, call.position, call.octave)
        IN  (IsOk(note) /\ note.val \in 12 .. 127
               /\ note.val = DegreePitch(call.scale, call.position, call.octave)) =>
                /\ IsOk(ret)
                /\ NamedNote_to_note(overflow_checks, ret.val) = note

\* C18, in a build with overflow checks
C18_NamedNoteOfDegreeChecked ==
    (call.op = "Scale::get_named_note" /\ overflow_checks) =>
        LET note == get_note(overflow_checks, call.scale, call.position, call.octave)
        IN  (IsOk(note) /\ note.val \in 12 .. 127) =>
                /\ IsOk(ret)
                /\ NamedNote_to_note(overflow_checks, ret.val) = note

\* a degree that fell back to the default spelling, named as its pitch
C18_FallbackWitness ==
    /\ call.op = "Scale::get_named_note"
    /\ IsOk(ret)
    /\ FellBack(call.scale, call.position)
    /\ NamedNote_to_note(overflow_checks, ret.val) =
          Ok(DegreePitch(call.scale, call.position, call.octave))

\* C19: every scale Scale::new accepts has at least one degree, so that the
\* index computation of get_note and get_named_note is defined for every
\* position and never divides by zero.
C19_AtLeastOneDegree ==
    /\ (call.op = "Scale::new" /\ IsOk(ret)) => Len(ret.val.offsets) >= 1
    /\ call.op \in {"Scale::get_note", "Scale::get_named_note"} =>
          IsOk(get_index_and_additional_octaves(call.scale, call.position))

\* C19, for the scales of at least one degree: the index computation is
\* defined at every position
C19_IndexDefinedFromOneDegree ==
    ( /\ call.op \in {"Scale::get_note", "Scale::get_named_note"}
      /\ Len(call.scale.offsets) >= 1 ) =>
        IsOk(get_index_and_additional_octaves(call.scale, call.position))

\* Scale::new accepts no offsets at all
C19_EmptyAccepted ==
    /\ call.op = "Scale::new"
    /\ call.offsets = << >>
    /\ IsOk(ret)

\* the call names the anchor of a scale whose first offset is 0, at an octave
\* where the anchor is a pitch in 12 .. 127
NamesAnchor ==
    /\ call.op = "Scale::get_named_note"
    /\ call.position = 0
    /\ call.scale.offsets # << >>
    /\ call.scale.offsets[1] = 0
    /\ DegreePitch(call.scale, 0, call.octave) \in 12 .. 127

BoundaryAnchors == {NamedKey_new("B", "Sharp"), NamedKey_new("C", "Flat")}

\* C20: for every scale whose first offset is 0 and every octave in range,
\* get_named_note(0, octave) is NamedNote(anchor, octave), for every anchor
\* spelling, B# and Cb included.
C20_AnchorName ==
    NamesAnchor => ret = Ok(NamedNote_new(call.scale.start, call.octave))

\* C20, away from the anchors B# and Cb
C20_AnchorNameInsideOctave ==
    (NamesAnchor /\ call.scale.start \notin BoundaryAnchors) =>
        ret = Ok(NamedNote_new(call.scale.start, call.octave))

\* what get_named_note(0, octave) is on the anchors B# and Cb: the anchor's
\* spelling one octave off, the name of the pitch get_note returns
C20_BoundaryAnchorAsNamed ==
    (NamesAnchor /\ call.scale.start \in BoundaryAnchors) =>
        ret = Ok(NamedNote_new(call.scale.start,
                               call.octave + BoundaryShift(call.scale.start)))

---------------------------------------------------------------------------
(* Properties of the tracks of a parsed piece *)

\* the track parsed from the input track i: its type, id and entries, and
\* its start as declared
TrackOf(tracks_json, i) ==
    [type  |-> tracks_json[i].type,
     id    |-> tracks_json[i].id,
     start |-> ResolvedStart(tracks_json, i, TRUE).val,
     data  |-> tracks_json[i].data]

\* no two input tracks carry the same id
DistinctIds(tracks_json) ==
    \A i, j \in 1 .. Len(tracks_json) :
        tracks_json[i].id = tracks_json[j].id => i = j

\* C21: for every input parse_piece accepts, the piece has as many tracks
\* as the input array, in the same order, each holding the data of the input
\* track at the same index, also when two input tracks carry the same id.
C21_TracksKept ==
    (call.op = "parse_piece" /\ IsOk(ret)) =>
        LET tracks_json == call.piece_json.tracks
        IN  /\ Len(ret.val.tracks) = Len(tracks_json)
            /\ \A i \in 1 .. Len(tracks_json) :
                  ret.val.tracks[i] = TrackOf(tracks_json, i)

\* C21, for the inputs whose ids are all different
C21_TracksKeptDistinctIds ==
    (call.op = "parse_piece" /\ IsOk(ret) /\ DistinctIds(call.piece_json.tracks)) =>
        LET tracks_json == call.piece_json.tracks
        IN  /\ Len(ret.val.tracks) = Len(tracks_json)
            /\ \A i \in 1 .. Len(tracks_json) :
                  ret.val.tracks[i] = TrackOf(tracks_json, i)

\* what parse_piece keeps of tracks of the same id: one track per id, at the
\* place of the first track of that id, holding the data of the last
C21_LastOfEachIdKept ==
    (call.op = "parse_piece" /\ IsOk(ret)) =>
        LET tracks_json == call.piece_json.tracks
            n           == Len(tracks_json)
            firsts      == {i \in 1 .. n :
                               \A j \in 1 .. i - 1 : tracks_json[j].id # tracks_json[i].id}
            last(id)    == CHOOSE i \in 1 .. n :
                               /\ tracks_json[i].id = id
                               /\ \A j \in i + 1 .. n : tracks_json[j].id # id
        IN  /\ Len(ret.val.tracks) = Cardinality(firsts)
            /\ \A i \in firsts :
                  ret.val.tracks[Cardinality({j \in firsts : j <= i})] =
                      TrackOf(tracks_json, last(tracks_json[i].id))

\* two accepted tracks of the same id, one track in the piece
C21_DuplicateAccepted ==
    /\ call.op = "parse_piece"
    /\ Len(call.piece_json.tracks) = 2
    /\ call.piece_json.tracks[1].id = call.piece_json.tracks[2].id
    /\ IsOk(ret)
    /\ Len(ret.val.tracks) = 1

====
